---- MODULE Spec2Model ----
(***************************************************************************)
(* Live-data synchronisation of the crypto price tracker: the redux slice  *)
(* holding the asset collection (store/crypto-slice), the REST snapshot    *)
(* builder (services/crypto-data.ts), the Binance stream client            *)
(* (services/mock-socket.ts) and the calls Home (App.tsx) makes on them.   *)
(*                                                                         *)
(* Representation.  A JS number is an integer counting hundredths (8 is    *)
(* 800, 1.5 is 150); NaN is the value NaN below.  A JS string that the     *)
(* code converts (upper/lower case, parseFloat) is a sequence of           *)
(* one-character strings; identifiers that are only compared are TLA+      *)
(* strings.  A JS object is a function whose DOMAIN is the set of keys     *)
(* present, so an absent optional field is a key outside the DOMAIN.       *)
(* circulatingSupply counts units of 10^5 coins.                           *)
(***************************************************************************)
EXTENDS Integers, Sequences, FiniteSets, TLC

VARIABLES
    assets,         \* CryptoState.assets
    status,         \* CryptoState.status
    error,          \* CryptoState.error
    updates,        \* number of updateAsset actions the reducer has handled
    ws,             \* BinanceWebSocketService.ws: 0 is null, else a transport id
    initialAssets,  \* BinanceWebSocketService.initialAssets
    symbolToIdMap,  \* BinanceWebSocketService.symbolToIdMap
    transports,     \* the WebSocket objects created so far
    timers,         \* number of pending setTimeout reconnect callbacks
    callerStopped,  \* the caller's latest call on the service was stop()
    home,           \* Home: mounted, binanceWebSocketServiceRef.current (0 is
                    \* null, else the number of the instance), the instances
                    \* it created, and whether state.crypto.assets was
                    \* replaced since its effect ran
    last            \* the operation that ran last, its arguments and pre-state

storeVars == <<assets, status, error, updates>>
wsVars == <<ws, initialAssets, symbolToIdMap, transports, timers>>
vars == <<assets, status, error, updates, ws, initialAssets, symbolToIdMap,
          transports, timers, callerStopped, home, last>>

----------------------------------------------------------------------------
(* JS values                                                               *)

NaN == 0 - 1000000

\* the result of a fetch helper: null, or the parsed body
null == [isNull |-> TRUE]

NotNull(v) == [isNull |-> FALSE, value |-> v]

\* JS truthiness of a number: 0 and NaN are falsy
TruthyNum(x) == x # 0 /\ x # NaN

Has(obj, key) == key \in DOMAIN obj

\* { ...a, ...b }
Spread(a, b) ==
    [k \in (DOMAIN a) \cup (DOMAIN b) |-> IF k \in DOMAIN b THEN b[k] ELSE a[k]]

\* Array.prototype.slice(1)
Slice1(s) == IF Len(s) = 0 THEN <<>> ELSE Tail(s)

\* Array(n).fill(v)
Fill(n, v) == [i \in 1..n |-> v]

Digits == <<"0", "1", "2", "3", "4", "5", "6", "7", "8", "9">>

IsDigit(c) == \E i \in 1..10 : Digits[i] = c

DigitVal(c) == (CHOOSE i \in 1..10 : Digits[i] = c) - 1

\* length of the longest prefix of s made of digits
RECURSIVE DigitPrefix(_)
DigitPrefix(s) ==
    IF Len(s) > 0 /\ IsDigit(Head(s)) THEN 1 + DigitPrefix(Tail(s)) ELSE 0

RECURSIVE DigitsValue(_, _)
DigitsValue(s, acc) ==
    IF Len(s) = 0 THEN acc ELSE DigitsValue(Tail(s), acc * 10 + DigitVal(Head(s)))

\* the first two fraction digits as hundredths
FractionValue(s) ==
    IF Len(s) = 0 THEN 0
    ELSE IF Len(s) = 1 THEN 10 * DigitVal(s[1])
    ELSE 10 * DigitVal(s[1]) + DigitVal(s[2])

\* parseFloat of an unsigned literal: digits, then optionally "." and digits
ParseUnsigned(s) ==
    LET n == DigitPrefix(s)
        rest == SubSeq(s, n + 1, Len(s))
        hasDot == Len(rest) > 0 /\ rest[1] = "."
        m == IF hasDot THEN DigitPrefix(Tail(rest)) ELSE 0
    IN  IF n = 0 /\ m = 0 THEN NaN
        ELSE DigitsValue(SubSeq(s, 1, n), 0) * 100
             + (IF hasDot THEN FractionValue(SubSeq(Tail(rest), 1, m)) ELSE 0)

\* parseFloat(s): the longest numeric prefix, NaN when there is none
parseFloat(s) ==
    IF Len(s) > 0 /\ s[1] = "-"
    THEN LET v == ParseUnsigned(Tail(s)) IN IF v = NaN THEN NaN ELSE 0 - v
    ELSE ParseUnsigned(s)

\* n / d rounded to the nearest integer, d # 0
RoundDiv(n, d) ==
    LET an == IF n < 0 THEN 0 - n ELSE n
        ad == IF d < 0 THEN 0 - d ELSE d
        q == (2 * an + ad) \div (2 * ad)
    IN  IF (n < 0) # (d < 0) THEN 0 - q ELSE q

\* ((cur - old) / old) * 100, then parseFloat(x.toFixed(2))
PercentChange(cur, old) ==
    IF cur = NaN \/ old = NaN THEN NaN ELSE RoundDiv((cur - old) * 10000, old)

----------------------------------------------------------------------------
(* services/crypto-data.ts: the REST snapshot                              *)

SparklineLen == 7

DailyLimit == 8

baseAssets ==
    << [id |-> "bitcoin", name |-> "Bitcoin", symbol |-> <<"B", "T", "C">>,
        circulatingSupply |-> 197],
       [id |-> "tether", name |-> "Tether", symbol |-> <<"U", "S", "D", "T">>,
        circulatingSupply |-> 1100000] >>

\* while (sparkline7d.length < 7) sparkline7d.unshift(sparkline7d[0] || currentPrice)
RECURSIVE PadFront(_, _)
PadFront(s, currentPrice) ==
    IF Len(s) >= SparklineLen THEN s
    ELSE PadFront(<<(IF Len(s) > 0 /\ TruthyNum(s[1]) THEN s[1] ELSE currentPrice)>> \o s,
                  currentPrice)

Closes(klines) == [i \in 1..Len(klines) |-> parseFloat(klines[i])]

\* tickerData, dailyKlines, hourlyKlines are the three REST responses (null
\* when the fetch failed); a kline is represented by its close string, kline[4]
getCryptoAssetWithLiveData(baseAsset, tickerData, dailyKlines, hourlyKlines) ==
    IF baseAsset.symbol = <<"U", "S", "D", "T">>
    THEN Spread(baseAsset,
                [price |-> 100, percentChange1h |-> 0, percentChange24h |-> 0,
                 percentChange7d |-> 0,
                 marketCap |-> baseAsset.circulatingSupply * 100,
                 volume24h |-> (baseAsset.circulatingSupply * 100) \div 2,
                 sparkline7d |-> Fill(SparklineLen, 100)])
    ELSE IF tickerData.isNull
    THEN Spread(baseAsset,
                [price |-> 0, percentChange1h |-> 0, percentChange24h |-> 0,
                 percentChange7d |-> 0, marketCap |-> 0, volume24h |-> 0,
                 sparkline7d |-> Fill(SparklineLen, 0)])
    ELSE
      LET daily == dailyKlines.value
          hourly == hourlyKlines.value
          currentPrice == parseFloat(tickerData.value.lastPrice)
          percentChange24h == parseFloat(tickerData.value.priceChangePercent)
          volume24h == parseFloat(tickerData.value.quoteVolume)
          marketCap == IF currentPrice = NaN THEN NaN
                       ELSE currentPrice * baseAsset.circulatingSupply
          price1HourAgo == parseFloat(hourly[1])
          percentChange1h ==
              IF ~hourlyKlines.isNull /\ Len(hourly) >= 2 /\ price1HourAgo # 0
              THEN PercentChange(currentPrice, price1HourAgo) ELSE 0
          price7DaysAgo == parseFloat(daily[1])
          percentChange7d ==
              IF ~dailyKlines.isNull /\ Len(daily) >= DailyLimit /\ price7DaysAgo # 0
              THEN PercentChange(currentPrice, price7DaysAgo) ELSE 0
          sparkline7d ==
              IF ~dailyKlines.isNull /\ Len(daily) >= DailyLimit
              THEN Closes(Tail(daily))
              ELSE IF ~dailyKlines.isNull /\ Len(daily) > 0
              THEN PadFront(Closes(SubSeq(daily,
                                          IF Len(daily) > SparklineLen
                                          THEN Len(daily) - SparklineLen + 1 ELSE 1,
                                          Len(daily))),
                            currentPrice)
              ELSE Fill(SparklineLen, currentPrice)
      IN  Spread(baseAsset,
                 [price |-> currentPrice, percentChange1h |-> percentChange1h,
                  percentChange24h |-> percentChange24h,
                  percentChange7d |-> percentChange7d, marketCap |-> marketCap,
                  volume24h |-> volume24h, sparkline7d |-> sparkline7d])

\* responses[i] holds the three REST responses for baseAssets[i]
getCryptoAssets(responses) ==
    [i \in 1..Len(baseAssets) |->
        getCryptoAssetWithLiveData(baseAssets[i], responses[i].ticker,
                                   responses[i].daily, responses[i].hourly)]

----------------------------------------------------------------------------
(* store/crypto-slice: the reducer                                         *)

\* a findIndex whose miss is taken for the last position
findIndexOrLast(list, id) ==
    IF \E i \in 1..Len(list) : list[i].id = id
    THEN CHOOSE i \in 1..Len(list) :
            list[i].id = id /\ \A j \in 1..(i - 1) : list[j].id # id
    ELSE Len(list)

\* state.assets.findIndex(asset => asset.id === id); 0 stands for -1
findIndex(list, id) ==
    IF \E i \in 1..Len(list) : list[i].id = id
    THEN CHOOSE i \in 1..Len(list) :
            list[i].id = id /\ \A j \in 1..(i - 1) : list[j].id # id
    ELSE 0

\* the shifted sparkline of the price-only branch
ShiftSparkline(currentSparkline, price) == Slice1(currentSparkline) \o <<price>>

\* the branch condition without its sparkline7d test
ShiftsOnAnyPrice(payload) == Has(payload, "price") /\ TruthyNum(payload.price)

\* the branch condition: action.payload.price && !action.payload.sparkline7d
ShiftsSparkline(payload) ==
    Has(payload, "price") /\ TruthyNum(payload.price) /\ ~Has(payload, "sparkline7d")

\* an updateAsset that also resets the asset's percentChange7d
updateAssetResetting7d(stateAssets, payload) ==
    LET assetIndex == findIndex(stateAssets, payload.id)
    IN  IF assetIndex # 0
        THEN IF ShiftsSparkline(payload)
             THEN [stateAssets EXCEPT ![assetIndex] =
                      Spread(Spread(stateAssets[assetIndex], payload),
                             [sparkline7d |->
                                 ShiftSparkline(stateAssets[assetIndex].sparkline7d,
                                                payload.price),
                              percentChange7d |-> 0])]
             ELSE [stateAssets EXCEPT ![assetIndex] =
                      Spread(Spread(stateAssets[assetIndex], payload),
                             [percentChange7d |-> 0])]
        ELSE stateAssets

\* reducers.updateAsset: the assets array after the action
updateAsset(stateAssets, payload) ==
    LET assetIndex == findIndex(stateAssets, payload.id)
    IN  IF assetIndex # 0
        THEN IF ShiftsSparkline(payload)
             THEN [stateAssets EXCEPT ![assetIndex] =
                      Spread(Spread(stateAssets[assetIndex], payload),
                             [sparkline7d |->
                                 ShiftSparkline(stateAssets[assetIndex].sparkline7d,
                                                payload.price)])]
             ELSE [stateAssets EXCEPT ![assetIndex] =
                      Spread(stateAssets[assetIndex], payload)]
        ELSE stateAssets

\* whether updateAsset assigns state.assets[assetIndex]: the draft is then
\* modified and the next state holds a new assets array
Assigns(stateAssets, payload) == \E i \in 1..Len(stateAssets) : stateAssets[i].id = payload.id

initialState == [assets |-> <<>>, status |-> "idle", error |-> "null"]

----------------------------------------------------------------------------
(* services/mock-socket.ts: BinanceWebSocketService                        *)

Lowers == <<"a", "b", "c", "d", "e", "h", "n", "o", "s", "t", "u">>

Uppers == <<"A", "B", "C", "D", "E", "H", "N", "O", "S", "T", "U">>

UpperChar(c) ==
    IF \E i \in 1..Len(Lowers) : Lowers[i] = c
    THEN Uppers[CHOOSE i \in 1..Len(Lowers) : Lowers[i] = c]
    ELSE c

LowerChar(c) ==
    IF \E i \in 1..Len(Uppers) : Uppers[i] = c
    THEN Lowers[CHOOSE i \in 1..Len(Uppers) : Uppers[i] = c]
    ELSE c

\* String.prototype.toUpperCase
toUpperCase(str) == [i \in 1..Len(str) |-> UpperChar(str[i])]

\* String.prototype.toLowerCase
toLowerCase(str) == [i \in 1..Len(str) |-> LowerChar(str[i])]

\* Array.prototype.join('/')
RECURSIVE JoinSlash(_)
JoinSlash(parts) ==
    IF Len(parts) = 0 THEN <<>>
    ELSE IF Len(parts) = 1 THEN parts[1]
    ELSE parts[1] \o <<"/">> \o JoinSlash(Tail(parts))

undefined == "undefined"

\* what Map.prototype.get returns
MapGet(map, key) == IF key \in DOMAIN map THEN map[key] ELSE undefined

\* Map.prototype.set
MapSet(map, key, value) ==
    [k \in (DOMAIN map) \cup {key} |-> IF k = key THEN value ELSE map[k]]

EmptyMap == [k \in {} |-> undefined]

\* (asset.symbol + 'USDT').toUpperCase()
BinanceSymbol(asset) == toUpperCase(asset.symbol \o <<"U", "S", "D", "T">>)

\* `${asset.symbol.toLowerCase()}usdt@ticker`
StreamName(asset) ==
    toLowerCase(asset.symbol) \o <<"u", "s", "d", "t", "@", "t", "i", "c", "k", "e", "r">>

\* the symbolToIdMap.set calls of start's map callback, in list order
RECURSIVE BuildSymbolMap(_, _)
BuildSymbolMap(list, map) ==
    IF Len(list) = 0 THEN map
    ELSE BuildSymbolMap(Tail(list), MapSet(map, BinanceSymbol(Head(list)), Head(list).id))

\* the streams string start builds: map, filter(stream => !!stream), join('/')
Streams(list) ==
    LET names == [i \in 1..Len(list) |-> StreamName(list[i])]
    IN  JoinSlash(SelectSeq(names, LAMBDA n : Len(n) > 0))

\* the service object: its fields, the WebSocket objects it created and the
\* reconnect callbacks it has pending
Service == [ws |-> ws, initialAssets |-> initialAssets, symbolToIdMap |-> symbolToIdMap,
            transports |-> transports, timers |-> timers]

\* a lookup by the frame's symbol as it arrived
mapExactSymbolToAssetId(svc, binanceSymbol) ==
    MapGet(svc.symbolToIdMap, binanceSymbol)

\* mapBinanceSymbolToAssetId
mapBinanceSymbolToAssetId(svc, binanceSymbol) ==
    MapGet(svc.symbolToIdMap, toUpperCase(binanceSymbol))

NoDispatch == [dispatch |-> FALSE]

\* a handleMessage that does not test the event type
handleMessageAnyEvent(svc, frame) ==
    IF ~frame.json THEN NoDispatch
    ELSE LET message == frame.message
         IN  IF ~Has(message, "data") THEN NoDispatch
             ELSE IF ~Has(message.data, "s") THEN NoDispatch
             ELSE LET assetId == mapBinanceSymbolToAssetId(svc, message.data.s)
                      num(key) == IF Has(message.data, key)
                                  THEN parseFloat(message.data[key]) ELSE NaN
                  IN  IF assetId = undefined \/ assetId = "" THEN NoDispatch
                      ELSE [dispatch |-> TRUE,
                            payload |-> [id |-> assetId, price |-> num("c"),
                                         percentChange24h |-> num("P"),
                                         volume24h |-> num("q")]]

\* a handleMessage that dispatches whatever the lookup returned
handleMessageUnmapped(svc, frame) ==
    IF ~frame.json THEN NoDispatch
    ELSE LET message == frame.message
         IN  IF ~Has(message, "data") THEN NoDispatch
             ELSE IF ~Has(message.data, "e") \/ message.data.e # "24hrTicker" THEN NoDispatch
             ELSE IF ~Has(message.data, "s") THEN NoDispatch
             ELSE LET assetId == mapBinanceSymbolToAssetId(svc, message.data.s)
                      num(key) == IF Has(message.data, key)
                                  THEN parseFloat(message.data[key]) ELSE NaN
                  IN  [dispatch |-> TRUE,
                       payload |-> [id |-> assetId, price |-> num("c"),
                                    percentChange24h |-> num("P"),
                                    volume24h |-> num("q")]]

\* handleMessage: the updateAsset payload it dispatches, or NoDispatch.  A
\* frame is [json |-> FALSE] when JSON.parse throws, else the parsed message;
\* every throw inside the try block is caught.
handleMessage(svc, frame) ==
    IF ~frame.json THEN NoDispatch
    ELSE LET message == frame.message
         IN  IF ~Has(message, "data") THEN NoDispatch
             ELSE IF ~Has(message.data, "e") \/ message.data.e # "24hrTicker" THEN NoDispatch
             ELSE IF ~Has(message.data, "s") THEN NoDispatch
             ELSE LET assetId == mapBinanceSymbolToAssetId(svc, message.data.s)
                      num(key) == IF Has(message.data, key)
                                  THEN parseFloat(message.data[key]) ELSE NaN
                  IN  IF assetId = undefined \/ assetId = "" THEN NoDispatch
                      ELSE [dispatch |-> TRUE,
                            payload |-> [id |-> assetId, price |-> num("c"),
                                         percentChange24h |-> num("P"),
                                         volume24h |-> num("q")]]

Detached == [onopen |-> FALSE, onmessage |-> FALSE, onerror |-> FALSE, onclose |-> FALSE]

\* a stop that keeps the cached asset list
stopKeepingAssets(svc) ==
    IF svc.ws # 0
    THEN [svc EXCEPT !.ws = 0,
                     !.transports[svc.ws] =
                         Spread(@, Spread(Detached, [readyState |-> "CLOSING"]))]
    ELSE svc

\* a stop that leaves the close handler attached
stopKeepingOnclose(svc) ==
    IF svc.ws # 0
    THEN [svc EXCEPT !.ws = 0,
                     !.initialAssets = <<>>,
                     !.transports[svc.ws] =
                         Spread(@, [onopen |-> FALSE, onmessage |-> FALSE,
                                    onerror |-> FALSE, readyState |-> "CLOSING"])]
    ELSE [svc EXCEPT !.initialAssets = <<>>]

\* a stop that clears the cached asset list only when it held a transport
stopClearingWhenHeld(svc) ==
    IF svc.ws # 0
    THEN [svc EXCEPT !.ws = 0,
                     !.initialAssets = <<>>,
                     !.transports[svc.ws] =
                         Spread(@, Spread(Detached, [readyState |-> "CLOSING"]))]
    ELSE svc

\* stop: detach the handlers, clear this.ws, close(1000), clear initialAssets
stop(svc) ==
    IF svc.ws # 0
    THEN [svc EXCEPT !.ws = 0,
                     !.initialAssets = <<>>,
                     !.transports[svc.ws] =
                         Spread(@, Spread(Detached, [readyState |-> "CLOSING"]))]
    ELSE [svc EXCEPT !.initialAssets = <<>>]

\* a handleError that treats the error as an unclean close
handleErrorClosing(svc) ==
    IF Len(svc.initialAssets) > 0
    THEN [svc EXCEPT !.ws = 0, !.timers = @ + 1]
    ELSE [svc EXCEPT !.ws = 0]

\* handleError: console.error in both branches, nothing else
handleError(svc) == svc

\* a handleClose that never reconnects
handleCloseNoRetry(svc, wasClean) == [svc EXCEPT !.ws = 0]

\* a handleClose that reconnects after every close
handleCloseAlwaysRetry(svc, wasClean) ==
    IF Len(svc.initialAssets) > 0
    THEN [svc EXCEPT !.ws = 0, !.timers = @ + 1]
    ELSE [svc EXCEPT !.ws = 0]

\* handleClose: clear this.ws; setTimeout(() => this.start(this.initialAssets))
\* when the close was unclean and initialAssets is not empty
handleClose(svc, wasClean) ==
    IF Len(svc.initialAssets) > 0 /\ ~wasClean
    THEN [svc EXCEPT !.ws = 0, !.timers = @ + 1]
    ELSE [svc EXCEPT !.ws = 0]

\* new WebSocket(url) with the four handlers attached; assets records the
\* argument of the start call that created it
NewTransport(url, list) ==
    [readyState |-> "CONNECTING", url |-> url, onopen |-> TRUE, onmessage |-> TRUE,
     onerror |-> TRUE, onclose |-> TRUE, assets |-> list]

\* the part of start after its teardown, with a catch block that schedules
\* a reconnect
startFreshRetrying(s1, list, created) ==
    IF Len(list) = 0 THEN s1
    ELSE LET s2 == [s1 EXCEPT !.initialAssets = list,
                              !.symbolToIdMap = BuildSymbolMap(list, EmptyMap)]
             streams == Streams(list)
         IN  IF Len(streams) = 0 THEN s2
             ELSE IF ~created THEN [s2 EXCEPT !.timers = @ + 1]
             ELSE [s2 EXCEPT !.transports = Append(@, NewTransport(streams, list)),
                             !.ws = Len(s2.transports) + 1]

\* the part of start after its teardown, without symbolToIdMap.clear()
startFreshKeepingMap(s1, list, created) ==
    IF Len(list) = 0 THEN s1
    ELSE LET s2 == [s1 EXCEPT !.initialAssets = list,
                              !.symbolToIdMap = BuildSymbolMap(list, s1.symbolToIdMap)]
             streams == Streams(list)
         IN  IF Len(streams) = 0 THEN s2
             ELSE IF ~created THEN s2
             ELSE [s2 EXCEPT !.transports = Append(@, NewTransport(streams, list)),
                             !.ws = Len(s2.transports) + 1]

\* the part of start after its teardown of the transport held
startFresh(s1, list, created) ==
    IF Len(list) = 0 THEN s1
    ELSE LET s2 == [s1 EXCEPT !.initialAssets = list,
                              !.symbolToIdMap = BuildSymbolMap(list, EmptyMap)]
             streams == Streams(list)
         IN  IF Len(streams) = 0 THEN s2
             ELSE IF ~created THEN s2
             ELSE [s2 EXCEPT !.transports = Append(@, NewTransport(streams, list)),
                             !.ws = Len(s2.transports) + 1]

\* a start that does not stop the transport held
startWithoutStop(svc, list, created) == startFresh(svc, list, created)

\* a start that opens a transport for an empty list too
startIgnoringEmpty(svc, list, created) ==
    LET s1 == IF svc.ws # 0 THEN stop(svc) ELSE svc
    IN  [s1 EXCEPT !.transports = Append(@, NewTransport(Streams(list), list)),
                   !.ws = Len(s1.transports) + 1]

\* start(assets); created is FALSE when new WebSocket(url) throws
start(svc, list, created) ==
    startFresh(IF svc.ws # 0 THEN stop(svc) ELSE svc, list, created)

----------------------------------------------------------------------------
(* Inputs                                                                  *)

\* updateAsset actions one run may reduce
MaxUpdates == 2

\* WebSocket objects one run may create
MaxTransports == 2

Str1 == <<"1">>
Str2 == <<"2">>
Str3 == <<"3">>

TickerResponses ==
    { null,
      NotNull([lastPrice |-> Str2, priceChangePercent |-> <<"1", ".", "5">>,
               quoteVolume |-> <<"1", "0">>]) }

DailyResponses ==
    { null,
      NotNull(<<>>),
      NotNull(<<Str1, Str1, Str3>>),
      NotNull(<<Str1, Str1, Str1, Str2, Str2, Str3, Str3, Str2>>),
      NotNull(<<Str1, Str1, Str1, Str2, Str2, Str3, Str2, Str3>>) }

HourlyResponses == { null, NotNull(<<Str1, Str2>>) }

\* the REST responses one asset's requests may get; tether issues no request
Responses(baseAsset) ==
    IF baseAsset.symbol = <<"U", "S", "D", "T">>
    THEN { [ticker |-> null, daily |-> null, hourly |-> null] }
    ELSE [ticker : TickerResponses, daily : DailyResponses, hourly : HourlyResponses]

ResponseLists ==
    { r \in [1..Len(baseAssets) -> UNION { Responses(baseAssets[i]) : i \in 1..Len(baseAssets) }] :
        \A i \in 1..Len(baseAssets) : r[i] \in Responses(baseAssets[i]) }

NoFields == [k \in {} |-> 0]

PayloadIds == { "bitcoin", "tether", "dogecoin" }

PricePart == { NoFields, [price |-> 0], [price |-> 800, percentChange24h |-> 150] }

SparklinePart ==
    { NoFields,
      [sparkline7d |-> <<100, 200, 300, 400, 500, 600, 700>>],
      [sparkline7d |-> <<800, 800, 800, 800, 800, 800, 800>>] }

\* the AssetUpdatePayload values offered to the reducer
Payloads ==
    { Spread(Spread([id |-> i], p), s) : i \in PayloadIds, p \in PricePart, s \in SparklinePart }

Btc == [id |-> "bitcoin", symbol |-> <<"B", "T", "C">>]

Eth == [id |-> "ethereum", symbol |-> <<"e", "t", "h">>]

\* the asset lists callers pass to start; the service reads id and symbol
AssetLists == { <<>>, <<Btc>>, <<Btc, Eth>> }

TickerData(s, c) ==
    [e |-> "24hrTicker", s |-> s, c |-> c, P |-> <<"1", ".", "5">>, q |-> <<"1", "0">>]

BTCUSDT == <<"B", "T", "C", "U", "S", "D", "T">>

\* the frames a transport may deliver
Frames ==
    { [json |-> FALSE],
      [json |-> TRUE, message |-> [stream |-> "x"]],
      [json |-> TRUE, message |-> [data |-> [TickerData(BTCUSDT, <<"8">>) EXCEPT !.e = "otherEvent"]]],
      [json |-> TRUE, message |-> [data |-> TickerData(BTCUSDT, <<"8">>)]],
      [json |-> TRUE, message |-> [data |-> TickerData(toLowerCase(BTCUSDT), <<"0">>)]],
      [json |-> TRUE, message |-> [data |-> TickerData(<<"E", "T", "H", "U", "S", "D", "T">>, <<"x">>)]],
      [json |-> TRUE, message |-> [data |-> [e |-> "24hrTicker"]]] }

----------------------------------------------------------------------------
(* The store on its own: the slice under any dispatcher                    *)

WsInit ==
    /\ ws = 0
    /\ initialAssets = <<>>
    /\ symbolToIdMap = NoFields
    /\ transports = <<>>
    /\ timers = 0

StoreInit ==
    /\ assets = initialState.assets
    /\ status = initialState.status
    /\ error = initialState.error
    /\ updates = 0

Init ==
    /\ StoreInit
    /\ WsInit
    /\ callerStopped = FALSE
    /\ home = [mounted |-> TRUE, serviceRef |-> 0, instances |-> 0,
               assetsChanged |-> FALSE]
    /\ last = [op |-> "init"]

\* fetchAssets.pending
FetchPending ==
    /\ status' = "loading"
    /\ last' = [op |-> "fetchAssets.pending"]
    /\ UNCHANGED <<assets, error, updates>>
    /\ UNCHANGED <<wsVars, callerStopped, home>>

\* fetchAssets.fulfilled with the payload getCryptoAssets resolved to; the
\* thunk dispatches it after its pending action
FetchFulfilledFrom(lists) ==
    \E responses \in lists :
        /\ status = "loading"
        /\ status' = "succeeded"
        /\ assets' = getCryptoAssets(responses)
        /\ home' = [home EXCEPT !.assetsChanged = TRUE]
        /\ last' = [op |-> "fetchAssets.fulfilled"]
        /\ UNCHANGED <<error, updates>>
        /\ UNCHANGED <<wsVars, callerStopped>>

\* fetchAssets.rejected
FetchRejected ==
    /\ status = "loading"
    /\ status' = "failed"
    /\ error' = "message"
    /\ last' = [op |-> "fetchAssets.rejected"]
    /\ UNCHANGED <<assets, updates>>
    /\ UNCHANGED <<wsVars, callerStopped, home>>

\* dispatch(updateAsset(payload)) by any caller
UpdateAsset ==
    \E payload \in Payloads :
        /\ updates < MaxUpdates
        /\ assets' = updateAsset(assets, payload)
        /\ updates' = updates + 1
        /\ home' = [home EXCEPT !.assetsChanged = @ \/ Assigns(assets, payload)]
        /\ last' = [op |-> "updateAsset", payload |-> payload, before |-> assets]
        /\ UNCHANGED <<status, error>>
        /\ UNCHANGED <<wsVars, callerStopped>>

FetchFulfilled == FetchFulfilledFrom(ResponseLists)

NextStore == FetchPending \/ FetchFulfilled \/ FetchRejected \/ UpdateAsset

SpecStore == Init /\ [][NextStore]_vars

----------------------------------------------------------------------------
(* The service with its transports, its reconnect timer and the store      *)

\* Home's mount effect dispatches fetchAssets once; the snapshot settles
\* before Home creates the service and its first transport
BeforeService == Len(transports) = 0

HomeFetch == BeforeService /\ status = "idle" /\ FetchPending

\* the snapshots of the runs in which every request succeeds
LiveResponseLists ==
    { r \in ResponseLists :
        \A i \in 1..Len(r) :
            \/ baseAssets[i].symbol = <<"U", "S", "D", "T">>
            \/ ( /\ ~r[i].ticker.isNull
                 /\ ~r[i].daily.isNull /\ Len(r[i].daily.value) = DailyLimit
                 /\ r[i].daily.value[DailyLimit] = Str2
                 /\ ~r[i].hourly.isNull ) }

HomeFetchFulfilled == BeforeService /\ FetchFulfilledFrom(LiveResponseLists)

HomeFetchRejected == BeforeService /\ FetchRejected

\* Home creates the service once the store holds assets
ServiceExists == Len(assets) > 0

SetService(svc) ==
    /\ ws' = svc.ws
    /\ initialAssets' = svc.initialAssets
    /\ symbolToIdMap' = svc.symbolToIdMap
    /\ transports' = svc.transports
    /\ timers' = svc.timers

\* a caller invokes start(assets)
CallStart ==
    \E list \in AssetLists, created \in BOOLEAN :
        /\ ServiceExists
        /\ Len(transports) < MaxTransports
        /\ SetService(start(Service, list, created))
        /\ callerStopped' = FALSE
        /\ last' = [op |-> "start", assets |-> list, created |-> created,
                    before |-> Service]
        /\ UNCHANGED <<storeVars, home>>

\* a caller invokes stop()
CallStop ==
    /\ ServiceExists
    /\ SetService(stop(Service))
    /\ callerStopped' = TRUE
    /\ last' = [op |-> "stop", before |-> Service, afterStop |-> callerStopped]
    /\ UNCHANGED <<storeVars, home>>

\* a pending reconnect callback fires: this.start(this.initialAssets)
ReconnectTimer ==
    \E created \in BOOLEAN :
        /\ timers > 0
        /\ Len(start(Service, initialAssets, created).transports) <= MaxTransports
        /\ SetService(start([Service EXCEPT !.timers = @ - 1], initialAssets, created))
        /\ last' = [op |-> "timer", assets |-> initialAssets, created |-> created,
                    before |-> Service]
        /\ UNCHANGED <<storeVars, callerStopped, home>>

\* transport t reports that the connection is open; onopen only logs
TransportOpen ==
    \E t \in 1..Len(transports) :
        /\ transports[t].readyState = "CONNECTING"
        /\ transports' = [transports EXCEPT ![t].readyState = "OPEN"]
        /\ last' = [op |-> "open", t |-> t, before |-> Service]
        /\ UNCHANGED <<ws, initialAssets, symbolToIdMap, timers>>
        /\ UNCHANGED <<storeVars, callerStopped, home>>

\* transport t delivers a message event; onmessage, when attached, is handleMessage
TransportMessage ==
    \E t \in 1..Len(transports), frame \in Frames :
        LET result == IF transports[t].onmessage
                      THEN handleMessage(Service, frame) ELSE NoDispatch
        IN  /\ transports[t].readyState \in {"OPEN", "CLOSING"}
            /\ result.dispatch => updates < MaxUpdates
            /\ IF result.dispatch
               THEN /\ assets' = updateAsset(assets, result.payload)
                    /\ updates' = updates + 1
                    /\ home' = [home EXCEPT
                                   !.assetsChanged = @ \/ Assigns(assets, result.payload)]
               ELSE UNCHANGED <<assets, updates, home>>
            /\ last' = [op |-> "message", t |-> t, frame |-> frame, result |-> result,
                        before |-> Service, assetsBefore |-> assets,
                        updatesBefore |-> updates]
            /\ UNCHANGED <<status, error>>
            /\ UNCHANGED <<wsVars, callerStopped>>

\* transport t delivers an error event; onerror, when attached, is handleError,
\* which only logs
TransportError ==
    \E t \in 1..Len(transports) :
        /\ transports[t].readyState # "CLOSED"
        /\ SetService(IF transports[t].onerror THEN handleError(Service) ELSE Service)
        /\ last' = [op |-> "error", t |-> t, handled |-> transports[t].onerror,
                    before |-> Service, assetsBefore |-> assets,
                    updatesBefore |-> updates]
        /\ UNCHANGED <<storeVars, callerStopped, home>>

\* transport t closes and delivers its close event; onclose, when attached,
\* is handleClose
TransportClose ==
    \E t \in 1..Len(transports), wasClean \in BOOLEAN :
        LET closed == [Service EXCEPT !.transports[t].readyState = "CLOSED"]
        IN  /\ transports[t].readyState # "CLOSED"
            /\ SetService(IF transports[t].onclose
                          THEN handleClose(closed, wasClean) ELSE closed)
            /\ last' = [op |-> "close", t |-> t, wasClean |-> wasClean,
                        handled |-> transports[t].onclose, before |-> Service]
            /\ UNCHANGED <<storeVars, callerStopped, home>>

Next ==
    \/ HomeFetch
    \/ HomeFetchFulfilled
    \/ HomeFetchRejected
    \/ CallStart
    \/ CallStop
    \/ ReconnectTimer
    \/ TransportOpen
    \/ TransportMessage
    \/ TransportError
    \/ TransportClose

Spec == Init /\ [][Next]_vars

\* the service, its transports and its callers without the frames:
\* handleMessage assigns no field of the service and sets no timer
NextRetry ==
    \/ HomeFetch
    \/ HomeFetchFulfilled
    \/ HomeFetchRejected
    \/ CallStart
    \/ CallStop
    \/ ReconnectTimer
    \/ TransportOpen
    \/ TransportError
    \/ TransportClose

\* with the timer of setTimeout: a callback that is pending runs after its
\* delay
SpecFair == Init /\ [][NextRetry]_vars /\ WF_vars(ReconnectTimer)

----------------------------------------------------------------------------
(* Home (App.tsx) as the service's only caller                             *)

\* the fields of a CryptoAsset that start reads
Subscription(stateAssets) ==
    [i \in 1..Len(stateAssets) |->
        [id |-> stateAssets[i].id, symbol |-> stateAssets[i].symbol]]

\* new BinanceWebSocketService(dispatch): the fields of the new instance.  The
\* instance Home dropped was stopped first, so a callback it still has
\* pending finds this.ws null and an empty list and returns.
NewService(svc) ==
    [svc EXCEPT !.ws = 0, !.initialAssets = <<>>, !.symbolToIdMap = EmptyMap,
                !.timers = 0]

\* the cleanup of Home's second effect: stop() and ref.current = null
Cleanup(svc) == IF home.serviceRef # 0 THEN stop(svc) ELSE svc

\* Home's second effect runs again because the assets it selects changed:
\* the cleanup of its previous run, then its body
HomeEffect ==
    \E created \in BOOLEAN :
        LET list == Subscription(assets)
        IN  /\ home.mounted
            /\ home.assetsChanged
            /\ Len(transports) < MaxTransports
            /\ IF Len(assets) > 0
               THEN /\ SetService(start(NewService(Cleanup(Service)), list, created))
                    /\ home' = [home EXCEPT !.serviceRef = home.instances + 1,
                                            !.instances = @ + 1,
                                            !.assetsChanged = FALSE]
                    /\ callerStopped' = FALSE
               ELSE /\ SetService(Cleanup(Service))
                    /\ home' = [home EXCEPT !.serviceRef = 0, !.assetsChanged = FALSE]
                    /\ callerStopped' = (callerStopped \/ home.serviceRef # 0)
            /\ last' = [op |-> "effect", assets |-> list, created |-> created,
                        before |-> Service, homeBefore |-> home]
            /\ UNCHANGED storeVars

\* Home unmounts: the cleanup runs and no effect runs again
HomeUnmount ==
    /\ home.mounted
    /\ SetService(Cleanup(Service))
    /\ home' = [home EXCEPT !.mounted = FALSE, !.serviceRef = 0]
    /\ callerStopped' = (callerStopped \/ home.serviceRef # 0)
    /\ last' = [op |-> "unmount", before |-> Service, homeBefore |-> home]
    /\ UNCHANGED storeVars

NextHome ==
    \/ HomeFetch
    \/ HomeFetchFulfilled
    \/ HomeFetchRejected
    \/ HomeEffect
    \/ HomeUnmount
    \/ ReconnectTimer
    \/ TransportOpen
    \/ TransportMessage
    \/ TransportError
    \/ TransportClose

SpecHome == Init /\ [][NextHome]_vars

----------------------------------------------------------------------------
(* Claims                                                                  *)

\* the positions of the assets that had the payload's id when the store
\* reduced the updateAsset that ran last (ids are unique in the store)
Targets ==
    IF last.op = "updateAsset"
    THEN {i \in 1..Len(last.before) : last.before[i].id = last.payload.id}
    ELSE {}

\* C1: a payload with a price and no sparkline7d, applied to an asset whose
\* sparkline S has 7 elements, leaves the sparkline Tail(S) followed by the
\* price, whatever the price is.
C1_PriceOnlyShifts ==
    \A i \in Targets :
        ( /\ Has(last.payload, "price")
          /\ ~Has(last.payload, "sparkline7d")
          /\ Len(last.before[i].sparkline7d) = SparklineLen )
        => assets[i].sparkline7d
             = Tail(last.before[i].sparkline7d) \o <<last.payload.price>>

\* C2: a payload with a sparkline7d field, applied to an asset of the store,
\* leaves that asset's sparkline7d equal to the payload's sequence, with or
\* without a price in the payload.
C2_ExplicitSparklineReplaces ==
    \A i \in Targets :
        Has(last.payload, "sparkline7d")
        => assets[i].sparkline7d = last.payload.sparkline7d

C2_Witness ==
    \E i \in Targets :
        /\ Has(last.payload, "sparkline7d")
        /\ Has(last.payload, "price")
        /\ TruthyNum(last.payload.price)
        /\ last.before[i].sparkline7d # last.payload.sparkline7d
        /\ assets[i].sparkline7d = last.payload.sparkline7d

\* C3: updateAsset with an id no asset of the store has leaves the asset
\* collection as it was.
C3_UnknownIdNoOp ==
    (last.op = "updateAsset" /\ Targets = {}) => assets = last.before

C3_Witness ==
    /\ last.op = "updateAsset"
    /\ Targets = {}
    /\ Len(last.before) > 0
    /\ Has(last.payload, "price")
    /\ TruthyNum(last.payload.price)
    /\ assets = last.before

\* C4: every asset of the store has a sparkline7d of 7 elements whose last
\* element is the asset's price.
C4_SparklineEndsInPrice ==
    \A i \in 1..Len(assets) :
        /\ Len(assets[i].sparkline7d) = SparklineLen
        /\ assets[i].sparkline7d[SparklineLen] = assets[i].price

\* a transport that has been created and has neither closed nor been asked
\* to close
Live(t) == transports[t].readyState \in {"CONNECTING", "OPEN"}

\* the last step ran start: a caller's call or a reconnect callback
Started == last.op \in {"start", "timer"}

\* C5: a close event handled by handleClose leaves this.ws null; it schedules
\* exactly one reconnect callback when the close was unclean and the cached
\* asset list is not empty, and none when the close was clean.
C5_CloseSchedulesOneRetry ==
    (last.op = "close" /\ last.handled)
    => /\ ws = 0
       /\ (~last.wasClean /\ Len(last.before.initialAssets) > 0)
            => timers = last.before.timers + 1
       /\ last.wasClean => timers = last.before.timers

C5_Witness ==
    /\ last.op = "close"
    /\ last.handled
    /\ ~last.wasClean
    /\ Len(last.before.initialAssets) > 0
    /\ last.before.ws = last.t
    /\ ws = 0
    /\ timers = last.before.timers + 1

\* C6: once the caller has stopped the service and not started it again, the
\* client holds no transport and no cached assets, and a reconnect callback
\* that fires then creates no transport.
C6_StopDefusesPendingRetry ==
    callerStopped
    => /\ ws = 0
       /\ initialAssets = <<>>
       /\ last.op = "timer" => transports = last.before.transports

C6_Witness ==
    /\ callerStopped
    /\ last.op = "timer"
    /\ ws = 0
    /\ initialAssets = <<>>
    /\ transports = last.before.transports

\* C7: at most one transport is live, it is the one this.ws holds, and a start
\* that finds a transport held has asked it to close.
C7_AtMostOneLiveTransport ==
    /\ Cardinality({t \in 1..Len(transports) : Live(t)}) <= 1
    /\ \A t \in 1..Len(transports) : Live(t) => ws = t
    /\ (Started /\ last.before.ws # 0) => ~Live(last.before.ws)

C7_Witness ==
    /\ last.op = "start"
    /\ last.before.ws # 0
    /\ last.before.transports[last.before.ws].readyState = "OPEN"
    /\ transports[last.before.ws].readyState = "CLOSING"
    /\ ws # 0
    /\ ws # last.before.ws
    /\ Live(ws)

\* C8: start with an empty asset list creates no transport and leaves this.ws
\* null; a transport that was held has been detached and asked to close.
C8_EmptyStartStaysIdle ==
    (Started /\ Len(last.assets) = 0)
    => /\ ws = 0
       /\ Len(transports) = Len(last.before.transports)
       /\ \A t \in 1..Len(transports) : ~Live(t)
       /\ last.before.ws # 0
            => /\ transports[last.before.ws].readyState = "CLOSING"
               /\ ~transports[last.before.ws].onclose

C8_Witness ==
    /\ last.op = "start"
    /\ Len(last.assets) = 0
    /\ last.before.ws # 0
    /\ last.before.transports[last.before.ws].readyState = "OPEN"
    /\ transports[last.before.ws].readyState = "CLOSING"
    /\ ws = 0

\* C9: stop() on a client that holds no transport asks no transport to close,
\* schedules no reconnect, and leaves this.ws null and the cached asset list
\* empty.
C9_StopIdempotent ==
    (last.op = "stop" /\ last.before.ws = 0)
    => /\ transports = last.before.transports
       /\ timers = last.before.timers
       /\ ws = 0
       /\ initialAssets = <<>>

\* a second stop() in a row, the first having closed a transport
C9_Witness ==
    /\ last.op = "stop"
    /\ last.afterStop
    /\ last.before.ws = 0
    /\ last.before.initialAssets = <<>>
    /\ \E t \in 1..Len(transports) : transports[t].readyState = "CLOSING"
    /\ transports = last.before.transports
    /\ timers = last.before.timers
    /\ initialAssets = <<>>

\* C10: stop() on a client that holds a transport detaches its four handlers,
\* clears this.ws and asks the transport to close; a message the stopped
\* transport delivers afterwards dispatches nothing and its close event
\* schedules no reconnect.
C10_StoppedTransportIsSilent ==
    /\ (last.op = "stop" /\ last.before.ws # 0)
         => /\ ws = 0
            /\ transports[last.before.ws].readyState = "CLOSING"
            /\ ~transports[last.before.ws].onopen
            /\ ~transports[last.before.ws].onmessage
            /\ ~transports[last.before.ws].onerror
            /\ ~transports[last.before.ws].onclose
    /\ (last.op = "message" /\ last.before.transports[last.t].readyState = "CLOSING")
         => /\ ~last.result.dispatch
            /\ assets = last.assetsBefore
    /\ (last.op = "close" /\ last.before.transports[last.t].readyState = "CLOSING")
         => /\ ~last.handled
            /\ timers = last.before.timers
            /\ ws = last.before.ws

\* the stopped transport closes uncleanly while a later session is running
C10_Witness ==
    /\ last.op = "close"
    /\ last.before.transports[last.t].readyState = "CLOSING"
    /\ ~last.wasClean
    /\ Len(last.before.initialAssets) > 0
    /\ last.before.ws # 0
    /\ ws = last.before.ws
    /\ timers = last.before.timers

\* the last step was a message event that handleMessage handled and whose
\* frame parsed to a message with a data payload
HandledData ==
    /\ last.op = "message"
    /\ last.before.transports[last.t].onmessage
    /\ last.frame.json
    /\ Has(last.frame.message, "data")

\* the data payload of that frame is a 24hrTicker event that names a symbol
HandledTicker ==
    /\ HandledData
    /\ Has(last.frame.message.data, "e")
    /\ last.frame.message.data.e = "24hrTicker"
    /\ Has(last.frame.message.data, "s")

\* the assets of the list in use whose symbol + "USDT" is the frame's symbol,
\* letter case apart
SubscribedMatches ==
    IF HandledTicker
    THEN {i \in 1..Len(last.before.initialAssets) :
            toUpperCase(last.before.initialAssets[i].symbol \o <<"U", "S", "D", "T">>)
              = toUpperCase(last.frame.message.data.s)}
    ELSE {}

\* C11: a 24hrTicker frame whose symbol is, letter case apart, the symbol of
\* a subscribed asset followed by USDT makes handleMessage dispatch one
\* updateAsset whose payload is exactly id (that asset's), price (parseFloat
\* of c), percentChange24h (parseFloat of P) and volume24h (parseFloat of q),
\* and the store reduces that one action.
C11_TickerDispatchesOneMerge ==
    \A i \in SubscribedMatches :
        /\ last.result.dispatch
        /\ DOMAIN last.result.payload = {"id", "price", "percentChange24h", "volume24h"}
        /\ last.result.payload.id = last.before.initialAssets[i].id
        /\ last.result.payload.price = parseFloat(last.frame.message.data.c)
        /\ last.result.payload.percentChange24h = parseFloat(last.frame.message.data.P)
        /\ last.result.payload.volume24h = parseFloat(last.frame.message.data.q)
        /\ updates = last.updatesBefore + 1
        /\ assets = updateAsset(last.assetsBefore, last.result.payload)

\* the frame names btcusdt in lower case and the list in use holds BTC
C11_Witness ==
    /\ SubscribedMatches # {}
    /\ last.frame.message.data.s = toLowerCase(BTCUSDT)
    /\ last.result.dispatch
    /\ last.result.payload.id = "bitcoin"
    /\ last.result.payload.percentChange24h = 150
    /\ last.result.payload.volume24h = 1000

\* the service fields, the transports and the pending callbacks are those of
\* before the last step
ClientUnchanged ==
    /\ ws = last.before.ws
    /\ initialAssets = last.before.initialAssets
    /\ symbolToIdMap = last.before.symbolToIdMap
    /\ transports = last.before.transports
    /\ timers = last.before.timers

\* the store's assets and the count of reduced updateAsset actions are those
\* of before the last message event
NoMerge ==
    /\ ~last.result.dispatch
    /\ assets = last.assetsBefore
    /\ updates = last.updatesBefore

\* the handled frame is not JSON, has no data payload, or its data.e is not
\* "24hrTicker"
DroppedFrame ==
    /\ last.op = "message"
    /\ last.before.transports[last.t].onmessage
    /\ \/ ~last.frame.json
       \/ ~Has(last.frame.message, "data")
       \/ ~Has(last.frame.message.data, "e")
       \/ last.frame.message.data.e # "24hrTicker"

\* C12: a frame that is not valid JSON, carries no data payload, or whose
\* data.e is not "24hrTicker" dispatches no updateAsset and leaves this.ws,
\* initialAssets, symbolToIdMap, the transports and the pending reconnect
\* callbacks as they were.
C12_DroppedFrameChangesNothing ==
    DroppedFrame => (NoMerge /\ ClientUnchanged)

\* an event of another type for a subscribed symbol, on the open transport
C12_Witness ==
    /\ DroppedFrame
    /\ HandledData
    /\ last.frame.message.data.e = "otherEvent"
    /\ last.frame.message.data.s \in DOMAIN last.before.symbolToIdMap
    /\ last.before.transports[last.t].readyState = "OPEN"
    /\ last.before.ws = last.t
    /\ NoMerge
    /\ ClientUnchanged

\* C13: a 24hrTicker frame whose symbol the lookup does not find among the
\* keys of symbolToIdMap (the lookup upper-cases the symbol) dispatches no
\* updateAsset; the store and the client are as they were.
C13_UnmappedSymbolDropped ==
    (HandledTicker
       /\ toUpperCase(last.frame.message.data.s) \notin DOMAIN last.before.symbolToIdMap)
    => (NoMerge /\ ClientUnchanged)

\* ETHUSDT arrives while the mapping holds BTCUSDT only
C13_Witness ==
    /\ HandledTicker
    /\ last.frame.message.data.s = <<"E", "T", "H", "U", "S", "D", "T">>
    /\ DOMAIN last.before.symbolToIdMap = {BTCUSDT}
    /\ last.before.transports[last.t].readyState = "OPEN"
    /\ NoMerge
    /\ ClientUnchanged

\* the keys start derives from a list: (asset.symbol + 'USDT').toUpperCase()
KeysOf(list) ==
    { toUpperCase(list[i].symbol \o <<"U", "S", "D", "T">>) : i \in 1..Len(list) }

\* C14: after start(assets) with a non-empty list, symbolToIdMap has one
\* entry per distinct upper-cased symbol + "USDT" of the list and no other,
\* each mapped to the id of an asset of the list that has that symbol; and a
\* transport that has not closed and has its message handler attached was
\* created by the start call whose list the mapping is built from.
C14_MappingIsOfCurrentList ==
    /\ (Started /\ Len(last.assets) > 0)
         => /\ DOMAIN symbolToIdMap = KeysOf(last.assets)
            /\ \A k \in DOMAIN symbolToIdMap :
                 \E i \in 1..Len(last.assets) :
                    /\ KeysOf(<<last.assets[i]>>) = {k}
                    /\ symbolToIdMap[k] = last.assets[i].id
    /\ \A t \in 1..Len(transports) :
         (transports[t].readyState # "CLOSED" /\ transports[t].onmessage)
         => symbolToIdMap = BuildSymbolMap(transports[t].assets, EmptyMap)

\* a start with BTC alone after a session that mapped ETHUSDT too
C14_Witness ==
    /\ last.op = "start"
    /\ last.assets = <<Btc>>
    /\ last.created
    /\ <<"E", "T", "H", "U", "S", "D", "T">> \in DOMAIN last.before.symbolToIdMap
    /\ last.before.ws # 0
    /\ DOMAIN symbolToIdMap = {BTCUSDT}
    /\ symbolToIdMap[BTCUSDT] = "bitcoin"
    /\ ws # 0
    /\ transports[ws].onmessage
    /\ transports[ws].assets = <<Btc>>

\* the last step was an unclean close that handleClose handled while the
\* cached asset list was list
UncleanClose(list) ==
    /\ last.op = "close"
    /\ last.handled
    /\ ~last.wasClean
    /\ last.before.initialAssets = list

\* the last step was the reconnect callback invoking start(list)
Retried(list) == last.op = "timer" /\ last.assets = list

StreamedFields == {"price", "percentChange24h", "volume24h", "sparkline7d"}

\* the last step was a frame whose updateAsset the store reduced
Streamed == last.op = "message" /\ last.result.dispatch

\* C16: the updateAsset a ticker frame dispatches leaves the number and order
\* of the store's assets, every asset with another id, and on the asset with
\* the payload's id every field other than price, percentChange24h,
\* volume24h and sparkline7d as they were.
C16_StreamedUpdateFrame ==
    Streamed
    => /\ Len(assets) = Len(last.assetsBefore)
       /\ \A i \in 1..Len(last.assetsBefore) :
            /\ assets[i].id = last.assetsBefore[i].id
            /\ DOMAIN assets[i] = DOMAIN last.assetsBefore[i]
            /\ IF last.assetsBefore[i].id = last.result.payload.id
               THEN \A k \in (DOMAIN assets[i]) \ StreamedFields :
                       assets[i][k] = last.assetsBefore[i][k]
               ELSE assets[i] = last.assetsBefore[i]

\* a BTCUSDT ticker changes bitcoin's price and sparkline and rewrites its
\* 24 h change and volume
C16_Witness ==
    /\ Streamed
    /\ last.result.payload.id = "bitcoin"
    /\ \E i \in 1..Len(assets) :
         /\ assets[i].id = "bitcoin"
         /\ assets[i].price = 800
         /\ last.assetsBefore[i].price # 800
         /\ assets[i].percentChange24h = last.result.payload.percentChange24h
         /\ assets[i].volume24h = last.result.payload.volume24h
         /\ assets[i].sparkline7d # last.assetsBefore[i].sparkline7d
         /\ assets[i].percentChange7d = last.assetsBefore[i].percentChange7d
         /\ assets[i].percentChange7d # 0
         /\ assets[i].marketCap = last.assetsBefore[i].marketCap

\* C17: an error event of the transport the client holds, connecting or
\* open, leaves this.ws, initialAssets, symbolToIdMap, every transport and
\* the pending reconnect callbacks as they were and dispatches nothing; after
\* an open, message or error event the client still holds what it held.
C17_ErrorChangesNothing ==
    /\ ( /\ last.op = "error"
         /\ last.before.ws = last.t
         /\ last.before.transports[last.t].readyState \in {"CONNECTING", "OPEN"} )
       => /\ ClientUnchanged
          /\ assets = last.assetsBefore
          /\ updates = last.updatesBefore
    /\ last.op \in {"open", "message", "error"} => ws = last.before.ws

\* handleError runs for the open transport of a started client
C17_Witness ==
    /\ last.op = "error"
    /\ last.handled
    /\ last.before.ws = last.t
    /\ last.before.transports[last.t].readyState = "OPEN"
    /\ Len(last.before.initialAssets) > 0
    /\ ws = last.t
    /\ Live(ws)
    /\ timers = last.before.timers

\* C18: a reconnect callback that fires while the client holds a live
\* transport (a start during the delay created it) neither asks that
\* transport to close nor creates another one.
C18_RetrySparesLiveTransport ==
    ( /\ last.op = "timer"
      /\ last.before.ws # 0
      /\ last.before.transports[last.before.ws].readyState \in {"CONNECTING", "OPEN"} )
    => /\ ws = last.before.ws
       /\ transports = last.before.transports

\* C19: while Home is mounted (it loads one snapshot, on mount), the service
\* instance in use is the first one Home created, and no transport has been
\* closed by stop(): ticker updates merged into the store leave the client
\* and its transport in place.
C19_TickerUpdateKeepsClient ==
    home.mounted
    => /\ home.instances <= 1
       /\ \A t \in 1..Len(transports) : transports[t].readyState # "CLOSING"

\* the reconnect callbacks pending before the last step, less the one that
\* ran if the last step was a callback
TimersLeft == IF last.op = "timer" THEN last.before.timers - 1 ELSE last.before.timers

\* C20: when new WebSocket throws inside start(assets) with a non-empty list,
\* start ends with this.ws null, no transport created, initialAssets and
\* symbolToIdMap those of the given list, and no reconnect callback added.
C20_FailedCreationIsSwallowed ==
    (Started /\ Len(last.assets) > 0 /\ ~last.created)
    => /\ ws = 0
       /\ Len(transports) = Len(last.before.transports)
       /\ initialAssets = last.assets
       /\ DOMAIN symbolToIdMap = KeysOf(last.assets)
       /\ \A i \in 1..Len(last.assets) :
            \A k \in KeysOf(<<last.assets[i]>>) : symbolToIdMap[k] = last.assets[i].id
       /\ timers = TimersLeft

\* the creation fails in a start that found a transport held and another
\* list cached
C20_Witness ==
    /\ last.op = "start"
    /\ ~last.created
    /\ last.assets = <<Btc, Eth>>
    /\ last.before.ws # 0
    /\ last.before.initialAssets = <<Btc>>
    /\ transports[last.before.ws].readyState = "CLOSING"
    /\ ws = 0
    /\ initialAssets = <<Btc, Eth>>
    /\ timers = last.before.timers

====
